---- MODULE Spec2Model ----
(***************************************************************************)
(* Model of bogger: the block writer (fs/writer.rs), the block reader      *)
(* (fs/reader.rs), the directory manager (fs.rs), the Logger actor         *)
(* (logger.rs) and the Forwarder with its forward and ack tasks            *)
(* (forward.rs).                                                           *)
(*                                                                         *)
(* The specifications share the variables:                                 *)
(*   Spec        the Forwarder tailing a directory that a writer extends;  *)
(*   HonestSpec  Spec with a remote that resumes where it stopped;         *)
(*   QuietSpec   the Forwarder on a directory whose writer has stopped;    *)
(*   LoggerSpec  producers, the command queue and the Logger actor;        *)
(*   WriterSpec  an EntryWriter under a range of configurations;           *)
(*   RestartSpec an EntryWriter that is opened again and again;            *)
(*   DeleteSpec  delete_blocks on directories of arbitrary file names;     *)
(*   ReaderSpec  an EntryReader on block files of arbitrary bytes;         *)
(*   ScanSpec    updated_block on directories of arbitrary block sizes;    *)
(*   RetrySpec   Spec with opens of a block that fail for any reason;      *)
(*   RotateSpec  an EntryWriter whose flushes and syncs can fail;          *)
(*   LongSpec    an EntryReader on frames of up to 65535 bytes;            *)
(*   GoSpec      the reconnect loop of Forwarder::go and its tasks.        *)
(***************************************************************************)
EXTENDS Integers, Sequences, FiniteSets, TLC

\* ------------------------------------------------------------------ bounds

\* Appends the writer performs in Spec.
MaxAppends == 4
\* Appends the writer performs, before the handshake, in QuietSpec.
QuietAppends == 5
\* Network disconnects in Spec.
MaxDisconnects == 1
\* Frames whose stored CRC is damaged on disk in Spec.
MaxCorrupt == 1
\* Connections Forwarder::go makes in GoSpec.
MaxConnections == 3
\* Appends in WriterSpec.
MaxWriterAppends == 4
\* add() and sync() calls of the producers of LoggerSpec, all together.
MaxCalls == 3
\* A writer is started again in RestartSpec while its block number is below this.
MaxWriterBlock == 3

\* ------------------------------------------------------- program constants

\* The block header is one u64.
HeaderLen == 8
\* The queue of the Logger actor.
QueueCap == 100
\* Failed opens after which the forward task gives a block up: errors < 3.
OpenRetries == 3

\* ---------------------------------------------------------------- helpers

RECURSIVE SumSizes(_)

\* An entry frame on disk: u16 length, payload, u32 crc.
FrameSize(len) == 2 + len + 4

\* next_entry computes 2 + len + 4 in u16, the type of len: the sum wraps
\* around in a build without overflow checks and panics in one with them.
U16Modulus == 65536
FrameLenU16(len) == (2 + len + 4) % U16Modulus
Overflows(len) == 2 + len + 4 >= U16Modulus

SumSizes(frames) ==
    IF frames = <<>> THEN 0
    ELSE FrameSize(Head(frames).len) + SumSizes(Tail(frames))

Max(a, b) == IF a > b THEN a ELSE b

SetMax(S) == CHOOSE x \in S : \A y \in S : y <= x
SetMin(S) == CHOOSE x \in S : \A y \in S : x <= y

\* BlockInfo and its derived lexicographic order.
BlockInfo(n, o) == [number |-> n, offset |-> o]
Zero == BlockInfo(0, 0)
InfoLt(a, b) ==
    \/ a.number < b.number
    \/ a.number = b.number /\ a.offset < b.offset
InfoLe(a, b) == a = b \/ InfoLt(a, b)

\* ------------------------------------------------------------- file system

\* A block file as the bytes that reached the file: the header (or not yet)
\* and whole frames. A frame is [val, len, ok]: ok says the stored CRC
\* matches the payload.
EmptyFile == [hdr |-> FALSE, frames |-> <<>>]

FileLen(f) == (IF f.hdr THEN HeaderLen ELSE 0) + SumSizes(f.frames)

\* Byte offset of frame k (1-based) of a file, and of the end of frame k.
FrameStart(f, k) == HeaderLen + SumSizes(SubSeq(f.frames, 1, k - 1))
FrameEnd(f, k) == HeaderLen + SumSizes(SubSeq(f.frames, 1, k))

\* delete_blocks(dir, to): what is left of the directory d.
DeleteBlocksUpTo(d, to) == {n \in d : ~(n <= to)}
DeleteBlocks(d, to) == {n \in d : ~(n < to)}

\* ---------------------------------------------------------------- state

VARIABLES
    cfg,        \* Config: max_buffer_len, max_block_len, max_entry_len
    dir,        \* numbers n of the files block.<n> linked in the directory
    file,       \* contents of every block file created so far, by number
    w_info,     \* EntryWriter.current.info
    w_buf,      \* what the writer's BufWriter holds and has not written yet
    w_count,    \* entries appended so far
    w_synced,   \* entries appended before the last sync()
    w_last,     \* the last call on the writer, its entry length and result
    \* Logger (logger.rs)
    queue,      \* the mpsc channel: commands sent and not yet received
    rx_closed,  \* rx.close() was called
    closers,    \* the reply channels the actor collected
    l_pc,       \* where the actor is: drain, select, wait, final, done
    l_done,     \* commands the actor has processed
    l_timer,    \* timer-driven syncs since the last command
    p_sent,     \* per producer: the size-legal entries its add() calls queued
    p_calls,    \* per producer: add() calls made
    p_close,    \* per producer: no, sent, ok, Closed
    n_syncs,    \* sync() calls made
    \* Forwarder (forward.rs)
    f_pc,       \* the forward task: off, scan, open, read
    f_info,     \* forward: info
    f_size,     \* forward: size
    f_errors,   \* forward: errors
    f_todo,     \* find_updated_block: directory entries not yet returned
    f_closest,  \* find_updated_block: closest
    r_info,     \* EntryReader.info of the open reader
    f_from,     \* how forward came by its info: start, scan, read, skip
    a_prev,     \* handle_acks: prev.info
    a_last,     \* the last Ack handled on this connection and what it did
    sent,       \* the Records written on this connection, in order
    delivered,  \* entries sent in a Record on any connection
    rem_infos,  \* the info of every Record the remote received
    rem_last,   \* the info of the last Record the remote received
    disc,       \* network disconnects so far
    ncorrupt,   \* frames damaged on disk so far
    pre,        \* entries synced before the first handshake
    shook,      \* a handshake was completed
    maxStart,   \* the largest start any handshake response carried
    \* A directory and a block file on their own (fs.rs, fs/reader.rs)
    x_dir,      \* a directory: its entries, each a name and a file type
    x_del,      \* the last delete_blocks call: its bound and the entries before it
    x_file,     \* a block file, byte by byte
    x_rd,       \* an EntryReader on x_file: position, info, last result
    \* The loop of Forwarder::go on its own (forward.rs)
    g_pc,       \* where go is: connect, select, panicked
    g_conn,     \* connections made so far
    g_task      \* every task go spawned: running, its result, aborted, gone

wvars == <<cfg, dir, file, w_info, w_buf, w_count, w_synced, w_last>>
lvars == <<queue, rx_closed, closers, l_pc, l_done, l_timer, p_sent, p_calls,
           p_close, n_syncs>>
fvars == <<f_pc, f_info, f_size, f_errors, f_todo, f_closest, r_info, f_from,
           a_prev, a_last, sent, delivered, rem_infos, rem_last, disc, ncorrupt,
           pre, shook, maxStart>>
gvars == <<g_pc, g_conn, g_task>>
xvars == <<x_dir, x_del, x_file, x_rd, gvars>>
vars == <<wvars, lvars, fvars, xvars>>

\* ------------------------------------------------------------- EntryWriter

EmptyBuf == [hdr |-> FALSE, frames |-> <<>>]

BufLen(b) == (IF b.hdr THEN HeaderLen ELSE 0) + SumSizes(b.frames)

\* The writer with its view of the directory, as one value the operations
\* below transform.
Writer(c, d, f, info, buf, count, synced) ==
    [cfg |-> c, dir |-> d, file |-> f, info |-> info, buf |-> buf,
     count |-> count, synced |-> synced, res |-> "ok"]

\* BufWriter::flush: the buffered bytes reach the current file.
FlushBuf(w) ==
    [w EXCEPT !.file[w.info.number] =
                  [hdr |-> @.hdr \/ w.buf.hdr, frames |-> @.frames \o w.buf.frames],
              !.buf = EmptyBuf]

\* BufWriter::write of len bytes (the header, or the frame fr): the buffer is
\* written out first when the bytes do not fit, and bytes as long as the
\* capacity bypass the buffer.
BufWrite(w, isHeader, fr, len) ==
    LET w1 == IF BufLen(w.buf) + len > w.cfg.max_buffer_len THEN FlushBuf(w) ELSE w
        w2 == IF isHeader
              THEN [w1 EXCEPT !.buf.hdr = TRUE]
              ELSE [w1 EXCEPT !.buf.frames = Append(@, fr)]
    IN  IF len >= w.cfg.max_buffer_len THEN FlushBuf(w2) ELSE w2

WriteHeaderNoOffset(w) == BufWrite(w, TRUE, <<>>, HeaderLen)
WriteHeader(w) ==
    [BufWrite(w, TRUE, <<>>, HeaderLen) EXCEPT !.info.offset = @ + HeaderLen]

WriterSync(w) == [FlushBuf(w) EXCEPT !.synced = w.count]

LatestBlockNumber(d) == IF d = {} THEN 0 ELSE SetMax(d)

\* append_to: create_new fails on a name that exists.
CreateBlock(w, n) ==
    IF n \in w.dir
    THEN [w EXCEPT !.res = "Io"]
    ELSE [w EXCEPT !.dir = @ \cup {n},
                   !.file = [x \in DOMAIN w.file \cup {n} |->
                                 IF x = n THEN EmptyFile ELSE w.file[x]],
                   !.info = BlockInfo(n, 0),
                   !.buf = EmptyBuf]

StartNewBlockSkip(w) ==
    LET w1 == CreateBlock(WriterSync(w), w.info.number + 2)
    IN  IF w1.res = "ok" THEN WriteHeader(w1) ELSE w1
StartNewBlock(w) ==
    LET w1 == CreateBlock(WriterSync(w), w.info.number + 1)
    IN  IF w1.res = "ok" THEN WriteHeader(w1) ELSE w1

\* sync() fails: the flush stops after `units` of what the BufWriter holds
\* (the header, then the frames) have reached the file, or sync_data fails
\* after all of it has. What was not written stays in the buffer.
SyncFailed(w, units) ==
    LET h == w.buf.hdr /\ units >= 1
        k == IF w.buf.hdr THEN Max(units - 1, 0) ELSE units
    IN  [w EXCEPT !.file[w.info.number] =
                      [hdr |-> @.hdr \/ h,
                       frames |-> @.frames \o SubSeq(w.buf.frames, 1, k)],
                  !.buf = [hdr |-> w.buf.hdr /\ ~h,
                           frames |-> SubSeq(w.buf.frames, k + 1, Len(w.buf.frames))],
                  !.res = "Io"]

\* How much of the buffer a failing flush may have written.
BufUnits(w) == (IF w.buf.hdr THEN 1 ELSE 0) + Len(w.buf.frames)

\* start_new_block without the sync of the current block.
StartNewBlockUnsynced(w, fails, units) ==
    LET w1 == CreateBlock(w, w.info.number + 1)
    IN  IF w1.res = "ok" THEN WriteHeader(w1) ELSE w1

\* start_new_block: `self.sync().await?` returns early when the sync fails.
StartNewBlockWhen(w, fails, units) ==
    IF fails THEN SyncFailed(w, units) ELSE StartNewBlock(w)

\* The rotation test of append.
NeedsRotationNever(w, size) == FALSE
NeedsRotation(w, size) == w.info.offset + size > w.cfg.max_block_len

WriterAppendCheckLate(w, fr) ==
    LET size == FrameSize(fr.len)
        w1 == IF NeedsRotation(w, size) THEN StartNewBlock(w) ELSE w
    IN  IF fr.len > w.cfg.max_entry_len
        THEN [w1 EXCEPT !.res = "EntrySize"]
        ELSE IF w1.res = "ok"
        THEN [BufWrite(w1, FALSE, fr, size) EXCEPT !.info.offset = @ + size,
                                                    !.count = @ + 1]
        ELSE w1
WriterAppend(w, fr) ==
    IF fr.len > w.cfg.max_entry_len
    THEN [w EXCEPT !.res = "EntrySize"]
    ELSE LET size == FrameSize(fr.len)
             w1 == IF NeedsRotation(w, size) THEN StartNewBlock(w) ELSE w
         IN  IF w1.res = "ok"
             THEN [BufWrite(w1, FALSE, fr, size) EXCEPT !.info.offset = @ + size,
                                                         !.count = @ + 1]
             ELSE w1

\* append on a file system where the sync of a rotation may fail.
WriterAppendWhen(w, fr, fails, units) ==
    IF fr.len > w.cfg.max_entry_len
    THEN [w EXCEPT !.res = "EntrySize"]
    ELSE LET size == FrameSize(fr.len)
             w1 == IF NeedsRotation(w, size)
                   THEN StartNewBlockWhen(w, fails, units)
                   ELSE w
         IN  IF w1.res = "ok"
             THEN [BufWrite(w1, FALSE, fr, size) EXCEPT !.info.offset = @ + size,
                                                         !.count = @ + 1]
             ELSE w1

\* EntryWriter::open on directory d holding the files f.
WriterOpen(c, d, f) ==
    LET w0 == Writer(c, d, f, Zero, EmptyBuf, 0, 0)
        w1 == CreateBlock(w0, LatestBlockNumber(d) + 1)
    IN  IF w1.res = "ok" THEN WriteHeader(w1) ELSE w1

ThisWriter == Writer(cfg, dir, file, w_info, w_buf, w_count, w_synced)

\* The writer's state after a call that returned w with entry length len.
SetWriter(w, op, len) ==
    /\ dir' = w.dir
    /\ file' = w.file
    /\ w_info' = w.info
    /\ w_buf' = w.buf
    /\ w_count' = w.count
    /\ w_synced' = w.synced
    /\ w_last' = [op |-> op, len |-> len, res |-> w.res]
    /\ cfg' = cfg

InitWriter(c) ==
    LET w == WriterOpen(c, {}, <<>>)
    IN  /\ cfg = c
        /\ dir = w.dir
        /\ file = w.file
        /\ w_info = w.info
        /\ w_buf = w.buf
        /\ w_count = 0
        /\ w_synced = 0
        /\ w_last = [op |-> "open", len |-> 0, res |-> "ok"]

\* The Logger before any call, and the Forwarder before go().
NoInfo == [some |-> FALSE, number |-> 0, size |-> 0]
NoAck == [kind |-> "none", number |-> 0]
\* The producers of LoggerSpec: tasks that hold a clone of the Logger.
Producers == {1, 2}

\* add() and sync() calls made so far.
Calls == p_calls[1] + p_calls[2] + n_syncs

InitLogger ==
    /\ queue = <<>>
    /\ rx_closed = FALSE
    /\ closers = <<>>
    /\ l_pc = "drain"
    /\ l_done = 0
    /\ l_timer = 0
    /\ p_sent = [p \in Producers |-> <<>>]
    /\ p_calls = [p \in Producers |-> 0]
    /\ p_close = [p \in Producers |-> "no"]
    /\ n_syncs = 0

InitForwarder ==
    /\ f_pc = "off"
    /\ f_info = Zero
    /\ f_size = 0
    /\ f_errors = 0
    /\ f_todo = {}
    /\ f_closest = NoInfo
    /\ r_info = Zero
    /\ f_from = "none"
    /\ a_prev = Zero
    /\ a_last = NoAck
    /\ sent = <<>>
    /\ delivered = {}
    /\ rem_infos = {}
    /\ rem_last = Zero
    /\ disc = 0
    /\ ncorrupt = 0
    /\ pre = {}
    /\ shook = FALSE
    /\ maxStart = Zero

\* No delete_blocks call was made, and no reader is open.
NoDelete == [called |-> FALSE, to |-> 0, before |-> {}]
NoReader ==
    [state |-> "closed", pos |-> 0, info |-> Zero, res |-> "none", val |-> <<>>,
     open |-> [res |-> "none", version |-> 0], crc_seen |-> FALSE]

\* go has two task handles per connection.
Roles == {"forwarder", "receiver"}
Tasks == (1 .. MaxConnections) \X Roles

\* go is called: nothing is connected, no task was spawned.
InitGo ==
    /\ g_pc = "connect"
    /\ g_conn = 0
    /\ g_task = [t \in Tasks |-> "unborn"]

\* The specifications of the writer, the Logger and the Forwarder use no
\* directory or file besides their own.
InitAlone ==
    /\ x_dir = {}
    /\ x_del = NoDelete
    /\ x_file = <<>>
    /\ x_rd = NoReader
    /\ InitGo

\* ------------------------------------------------------------- WriterSpec

\* Configurations and entry lengths of WriterSpec: blocks that hold several
\* frames, one frame, and less than the largest legal frame.
WriterConfigs ==
    [max_buffer_len : {0, 16}, max_block_len : {10, 20, 24}, max_entry_len : {2, 5}]
WriterLens == {0, 2, 5}

WAppend(len) ==
    /\ w_count < MaxWriterAppends
    /\ SetWriter(WriterAppend(ThisWriter, [val |-> w_count + 1, len |-> len, ok |-> TRUE]),
                 "append", len)
    /\ UNCHANGED <<lvars, xvars, fvars>>

WSync ==
    /\ SetWriter(WriterSync(ThisWriter), "sync", 0)
    /\ UNCHANGED <<lvars, xvars, fvars>>

WriterInit ==
    /\ \E c \in WriterConfigs : InitWriter(c)
    /\ InitLogger
    /\ InitForwarder
    /\ InitAlone

WriterNext ==
    \/ \E len \in WriterLens : WAppend(len)
    \/ WSync

WriterSpec == WriterInit /\ [][WriterNext]_vars

\* C10 (as claimed): after each successful append the writer's offset is at
\* most max_block_len, for any configuration.
C10_OffsetWithinBlockLen ==
    (w_last.op = "append" /\ w_last.res = "ok") =>
        w_info.offset <= cfg.max_block_len

\* C10 (amended): after each successful append the writer's offset is at most
\* max_block_len, unless the frame alone does not fit a fresh block
\* (8 + 2 + len + 4 > max_block_len); the frame then starts a fresh block and
\* the offset is exactly 8 + 2 + len + 4.
C10_OffsetWithinBlockLenOrOneFrame ==
    (w_last.op = "append" /\ w_last.res = "ok") =>
        IF HeaderLen + FrameSize(w_last.len) <= cfg.max_block_len
        THEN w_info.offset <= cfg.max_block_len
        ELSE w_info.offset = HeaderLen + FrameSize(w_last.len)

\* An append that rotated to a fresh block and stayed within max_block_len.
C10_Witness ==
    /\ w_last.op = "append" /\ w_last.res = "ok"
    /\ w_info.number > 1
    /\ w_info.offset > HeaderLen + FrameSize(w_last.len)
    /\ w_info.offset <= cfg.max_block_len

\* C15: an append that returns EntrySize leaves the directory, the block
\* files, the writer's buffer, its BlockInfo and its counts as they were, so
\* every later call starts from the state the rejected call found.
C15_EntrySizeNoEffect ==
    [][(w_last'.op = "append" /\ w_last'.res = "EntrySize") =>
           UNCHANGED <<cfg, dir, file, w_info, w_buf, w_count, w_synced>>]_vars

\* An append was rejected while the buffer held a frame and a frame of the
\* rejected length would not have fitted the block.
C15_Witness ==
    /\ w_last.op = "append" /\ w_last.res = "EntrySize"
    /\ w_count >= 1
    /\ w_buf.frames # <<>>
    /\ w_info.offset + FrameSize(w_last.len) > cfg.max_block_len

\* C12 (as claimed): after open and after every successful append the
\* writer's offset equals the physical length of the current block file.
C12_OffsetIsFileLen ==
    (w_last.op \in {"open", "append"} /\ w_last.res = "ok") =>
        w_info.offset = FileLen(file[w_info.number])

\* C12 (amended): after open and after every successful append or sync the
\* writer's offset equals the physical length of the current block file plus
\* the bytes its BufWriter holds; it equals the physical length after a
\* sync, and always when max_buffer_len is 0.
C12_OffsetIsFileLenPlusBuffered ==
    (w_last.res = "ok") =>
        /\ w_info.offset = FileLen(file[w_info.number]) + BufLen(w_buf)
        /\ (w_last.op = "sync" \/ cfg.max_buffer_len = 0) =>
               w_info.offset = FileLen(file[w_info.number])

\* After an append, part of the block is in the file and part in the buffer.
C12_Witness ==
    /\ w_last.op = "append" /\ w_last.res = "ok"
    /\ BufLen(w_buf) > 0
    /\ FileLen(file[w_info.number]) > 0

\* ------------------------------------------------------------- RotateSpec

\* An EntryWriter on a file system where a flush or a sync_data may fail.
RAppend(len, fails, units) ==
    /\ w_count < MaxWriterAppends
    /\ units \in 0 .. BufUnits(ThisWriter)
    /\ SetWriter(WriterAppendWhen(ThisWriter,
                     [val |-> w_count + 1, len |-> len, ok |-> TRUE], fails, units),
                 "append", len)
    /\ UNCHANGED <<lvars, xvars, fvars>>

RSync(fails, units) ==
    /\ units \in 0 .. BufUnits(ThisWriter)
    /\ SetWriter(IF fails THEN SyncFailed(ThisWriter, units) ELSE WriterSync(ThisWriter),
                 "sync", 0)
    /\ UNCHANGED <<lvars, xvars, fvars>>

RotateNext ==
    \/ \E len \in WriterLens, fails \in BOOLEAN, units \in 0 .. MaxWriterAppends + 1 :
           RAppend(len, fails, units)
    \/ \E fails \in BOOLEAN, units \in 0 .. MaxWriterAppends + 1 : RSync(fails, units)

RotateSpec == WriterInit /\ [][RotateNext]_vars

\* The frames in the blocks before the current one, then those in the current
\* block and in the buffer.
RECURSIVE FramesUpTo(_, _)
FramesUpTo(f, n) ==
    IF n = 0 THEN <<>>
    ELSE FramesUpTo(f, n - 1) \o (IF n \in DOMAIN f THEN f[n].frames ELSE <<>>)

\* C26: once block n + 1 is created block n is final: the blocks before the
\* current one hold, in order, every frame appended to them, these frames
\* were synced, and no step changes such a block; and a call that fails in
\* the sync of a rotation creates no block and leaves the writer on its
\* block, the frame not appended.
C26_RotationOrdering ==
    /\ [](LET before == FramesUpTo(file, w_info.number - 1)
              all == FramesUpTo(file, w_info.number) \o w_buf.frames
          IN  /\ Len(all) = w_count
              /\ \A i \in 1 .. Len(all) : all[i].val = i
              /\ Len(before) <= w_synced
              /\ \A n \in dir : n < w_info.number => file[n].hdr)
    /\ [][\A n \in dir : (n < w_info.number) => (file'[n] = file[n])]_vars
    /\ [][(w_last'.res = "Io") =>
              (dir' = dir /\ w_info' = w_info /\ w_count' = w_count)]_vars

\* A rotation has succeeded, and the sync of the next one failed with a
\* part of the buffer written.
C26_Witness ==
    /\ w_last.op = "append" /\ w_last.res = "Io"
    /\ w_info.number >= 2
    /\ w_buf.frames # <<>>
    /\ file[w_info.number].frames # <<>>

\* ------------------------------------------------------------ RestartSpec

\* Writers that start one after the other on a directory the ack task
\* deletes blocks of.
RestartConfig == [max_buffer_len |-> 16, max_block_len |-> 24, max_entry_len |-> 2]
RestartLens == {2}

\* The writer is dropped, with what its BufWriter still held, and a new
\* EntryWriter is opened on the directory. The count of the entries appended
\* goes on over all writers.
WRestart ==
    /\ w_info.number < MaxWriterBlock
    /\ LET w == WriterOpen(cfg, dir, file)
       IN  IF w.res = "ok"
           THEN SetWriter([w EXCEPT !.count = w_count, !.synced = w_synced], "open", 0)
           ELSE /\ w_last' = [op |-> "open", len |-> 0, res |-> w.res]
                /\ UNCHANGED <<cfg, dir, file, w_info, w_buf, w_count, w_synced>>
    /\ UNCHANGED <<lvars, fvars, xvars>>

\* The forwarder's ack task deletes blocks: delete_blocks(dir, to) for the
\* number of a block that was forwarded, which is the writer's at most.
WDelete(to) ==
    /\ dir' = DeleteBlocks(dir, to)
    /\ dir' # dir
    /\ UNCHANGED <<cfg, file, w_info, w_buf, w_count, w_synced, w_last>>
    /\ UNCHANGED <<lvars, fvars, xvars>>

RestartInit ==
    /\ InitWriter(RestartConfig)
    /\ InitLogger
    /\ InitForwarder
    /\ InitAlone

RestartNext ==
    \/ \E len \in RestartLens : WAppend(len)
    \/ WSync
    \/ WRestart
    \/ \E to \in 1 .. w_info.number : WDelete(to)

RestartSpec == RestartInit /\ [][RestartNext]_vars

\* What reached file f is still in file g: the header, and the frames in order.
Kept(f, g) ==
    /\ f.hdr => g.hdr
    /\ Len(f.frames) <= Len(g.frames)
    /\ SubSeq(g.frames, 1, Len(f.frames)) = f.frames

\* C11: the writer's block is in the directory and is its latest. A step that
\* changes the writer's block number creates a block whose name was not in
\* the directory: the number after the latest when a writer starts, the
\* number after the current one when it rotates. No step of the writer
\* removes a block or takes bytes out of one.
C11_BlockNumbering ==
    /\ [](w_info.number \in dir /\ \A m \in dir : m <= w_info.number)
    /\ [][
         /\ (w_info'.number # w_info.number) =>
                (/\ w_info'.number \notin dir
                 /\ dir' = dir \cup {w_info'.number}
                 /\ \A m \in dir : m < w_info'.number
                 /\ w_info'.number - 1 \in dir
                 /\ (w_last'.op = "append") => (w_info'.number = w_info.number + 1))
         /\ (w_last' # w_last) =>
                (/\ dir \subseteq dir'
                 /\ \A n \in dir : Kept(file[n], file'[n]))
       ]_vars

\* A writer was started on a directory that holds a rotated block and has
\* lost its first block to the ack task.
C11_Witness ==
    /\ w_last.op = "open"
    /\ w_info.number >= 3
    /\ 1 \notin dir
    /\ \E n \in dir : n < w_info.number /\ Len(file[n].frames) >= 1

\* ------------------------------------------------------------------ Logger

\* The configuration of LoggerSpec and the encoded lengths of the values its
\* producers add: one of them longer than max_entry_len.
LoggerConfig == [max_buffer_len |-> 16, max_block_len |-> 22, max_entry_len |-> 2]
LoggerLens == {1, 3}

\* mpsc::Sender::send: the command joins the queue behind those waiting.
SendFirst(q, c) == <<c>> \o q
Send(q, c) == Append(q, c)

\* mpsc::Receiver::recv returns None: the channel is closed and empty.
ChannelDoneEarly(q, closed) == closed
ChannelDone(q, closed) == closed /\ q = <<>>

\* A send is refused once rx.close() was called or the receiver is dropped.
RefusedNever == FALSE
Refused == rx_closed \/ l_pc = "done"

\* Logger::add of a value that encodes to len bytes.
PAdd(p, len) ==
    /\ p_close[p] # "sent"
    /\ Calls < MaxCalls
    /\ p_calls' = [p_calls EXCEPT ![p] = @ + 1]
    /\ IF Refused
       THEN UNCHANGED <<queue, p_sent>>
       ELSE LET e == [val |-> <<p, p_calls[p] + 1>>, len |-> len]
            IN  /\ Len(queue) < QueueCap
                /\ queue' = Send(queue, [kind |-> "Add", p |-> p, entry |-> e])
                /\ p_sent' = [p_sent EXCEPT ![p] =
                                 IF len <= cfg.max_entry_len THEN Append(@, e) ELSE @]
    /\ UNCHANGED <<wvars, fvars, xvars, rx_closed, closers, l_pc, l_done, l_timer,
                   p_close, n_syncs>>

\* Logger::sync.
PSync(p) ==
    /\ p_close[p] # "sent"
    /\ Calls < MaxCalls
    /\ n_syncs' = n_syncs + 1
    /\ IF Refused
       THEN UNCHANGED queue
       ELSE /\ Len(queue) < QueueCap
            /\ queue' = Send(queue, [kind |-> "Sync", p |-> p, entry |-> <<>>])
    /\ UNCHANGED <<wvars, fvars, xvars, rx_closed, closers, l_pc, l_done, l_timer,
                   p_sent, p_calls, p_close>>

\* Logger::close up to the wait for the reply.
PClose(p) ==
    /\ p_close[p] = "no"
    /\ IF Refused
       THEN /\ p_close' = [p_close EXCEPT ![p] = "Closed"]
            /\ UNCHANGED queue
       ELSE /\ Len(queue) < QueueCap
            /\ queue' = Send(queue, [kind |-> "Close", p |-> p, entry |-> <<>>])
            /\ p_close' = [p_close EXCEPT ![p] = "sent"]
    /\ UNCHANGED <<wvars, fvars, xvars, rx_closed, closers, l_pc, l_done, l_timer,
                   p_sent, p_calls, n_syncs>>

\* on_item.
OnItem(c) ==
    /\ l_done' = l_done + 1
    /\ l_timer' = 0
    /\ IF c.kind = "Add"
       THEN /\ SetWriter(WriterAppend(ThisWriter,
                             [val |-> c.entry.val, len |-> c.entry.len, ok |-> TRUE]),
                         "append", c.entry.len)
            /\ UNCHANGED <<rx_closed, closers>>
       ELSE IF c.kind = "Sync"
       THEN /\ SetWriter(WriterSync(ThisWriter), "sync", 0)
            /\ UNCHANGED <<rx_closed, closers>>
       ELSE /\ rx_closed' = (rx_closed \/ closers = <<>>)
            /\ closers' = Append(closers, c.p)
            /\ UNCHANGED wvars

\* The try_recv loop. try_recv reports Disconnected only when no sender is
\* left; the closers hold theirs, so an empty queue reads Empty.
LDrain ==
    /\ l_pc = "drain"
    /\ IF queue # <<>>
       THEN /\ OnItem(Head(queue))
            /\ queue' = Tail(queue)
            /\ UNCHANGED l_pc
       ELSE /\ l_pc' = "select"
            /\ UNCHANGED <<wvars, queue, rx_closed, closers, l_done, l_timer>>
    /\ UNCHANGED <<fvars, xvars, p_sent, p_calls, p_close, n_syncs>>

\* select!: the rx.recv() branch.
LSelectRecv ==
    /\ l_pc = "select"
    /\ IF ChannelDone(queue, rx_closed)
       THEN /\ l_pc' = "final"
            /\ UNCHANGED <<wvars, queue, rx_closed, closers, l_done, l_timer>>
       ELSE /\ queue # <<>>
            /\ OnItem(Head(queue))
            /\ queue' = Tail(queue)
            /\ l_pc' = "wait"
    /\ UNCHANGED <<fvars, xvars, p_sent, p_calls, p_close, n_syncs>>

\* The actor back at the select! and its timer after a timer-driven sync.
AfterTimerRearmed == "select"

\* After the select!: the rx.recv() that waits for the next command.
AfterTimer == "wait"

\* select!: the sleep branch, taken when no command shows up for 3 seconds.
LSelectTimer ==
    /\ l_pc = "select"
    /\ queue = <<>>
    /\ ~rx_closed
    /\ SetWriter(WriterSync(ThisWriter), "sync", 0)
    /\ l_timer' = l_timer + 1
    /\ l_pc' = AfterTimer
    /\ UNCHANGED <<fvars, xvars, queue, rx_closed, closers, l_done, p_sent, p_calls,
                   p_close, n_syncs>>

\* The rx.recv() after the select!, without a timer.
LWait ==
    /\ l_pc = "wait"
    /\ IF ChannelDone(queue, rx_closed)
       THEN /\ l_pc' = "final"
            /\ UNCHANGED <<wvars, queue, rx_closed, closers, l_done, l_timer>>
       ELSE /\ queue # <<>>
            /\ OnItem(Head(queue))
            /\ queue' = Tail(queue)
            /\ l_pc' = "drain"
    /\ UNCHANGED <<fvars, xvars, p_sent, p_calls, p_close, n_syncs>>

\* After the loop: the final sync, then every closer is notified.
LFinal ==
    /\ l_pc = "final"
    /\ SetWriter(WriterSync(ThisWriter), "sync", 0)
    /\ p_close' = [p \in Producers |->
                      IF \E i \in 1 .. Len(closers) : closers[i] = p
                      THEN "ok" ELSE p_close[p]]
    /\ l_pc' = "done"
    /\ UNCHANGED <<fvars, xvars, queue, rx_closed, closers, l_done, l_timer, p_sent,
                   p_calls, n_syncs>>

Actor == LDrain \/ LSelectRecv \/ LSelectTimer \/ LWait \/ LFinal

LoggerInit ==
    /\ InitWriter(LoggerConfig)
    /\ InitLogger
    /\ InitForwarder
    /\ InitAlone

LoggerNext ==
    \/ \E p \in Producers, len \in LoggerLens : PAdd(p, len)
    \/ \E p \in Producers : PSync(p)
    \/ \E p \in Producers : PClose(p)
    \/ Actor

LoggerSpec == LoggerInit /\ [][LoggerNext]_vars

\* The actor is a spawned task: the runtime runs it whenever it can step.
LoggerFairSpec == LoggerSpec /\ WF_vars(Actor)

\* The frames written so far in disk order: blocks in ascending number,
\* frames in ascending offset, then those the BufWriter still holds.
RECURSIVE DiskFrames(_)
DiskFrames(n) ==
    IF n = 0 THEN <<>>
    ELSE DiskFrames(n - 1) \o (IF n \in DOMAIN file THEN file[n].frames ELSE <<>>)

Written == DiskFrames(w_info.number) \o w_buf.frames

Entries(frames) == [i \in 1 .. Len(frames) |-> [val |-> frames[i].val, len |-> frames[i].len]]

\* The entries of producer p among frames.
EntriesOf(p, frames) ==
    LET From(fr) == fr.val[1] = p
    IN  Entries(SelectSeq(frames, From))

\* The size-legal entries of producer p that wait in the queue.
QueuedOf(p) ==
    LET Mine(c) == c.kind = "Add" /\ c.p = p /\ c.entry.len <= cfg.max_entry_len
        q == SelectSeq(queue, Mine)
    IN  [i \in 1 .. Len(q) |-> q[i].entry]

Unsynced == w_synced < w_count

\* C3 (as claimed): once the actor has appended an entry and the queue is
\* empty, then unless a further command arrives the actor eventually syncs
\* the writer.
C3_IdleSync == (Unsynced /\ queue = <<>>) ~> (~Unsynced \/ queue # <<>>)

\* C4: once a Close is queued the actor eventually finishes, and when it has
\* finished, or a close() has returned Ok, the queue is drained, the actor has
\* run its final sync, every size-legal entry queued by any producer is on
\* disk, and no closer is left waiting: each close() has returned Ok.
C4_Closed ==
    \A p \in Producers : (p_close[p] = "ok" \/ l_pc = "done") =>
        /\ queue = <<>>
        /\ l_pc = "done"
        /\ w_buf = EmptyBuf /\ ~Unsynced
        /\ \A q \in Producers :
               /\ p_close[q] # "sent"
               /\ EntriesOf(q, DiskFrames(w_info.number)) = p_sent[q]

C4_GracefulClose ==
    /\ []C4_Closed
    /\ (\E p \in Producers : p_close[p] = "sent") ~> (l_pc = "done")

\* Two closers were notified and an entry of each producer is on disk.
C4_Witness ==
    \A p \in Producers : p_close[p] = "ok" /\ p_sent[p] # <<>>

\* C5: the frames written, restricted to one producer, are that producer's
\* accepted size-legal entries in call order, each once and unchanged; those
\* not yet written wait in the queue in the same order.
C5_PerProducerOrder ==
    \A p \in Producers :
        /\ EntriesOf(p, Written) \o QueuedOf(p) = p_sent[p]
        /\ \A i \in 1 .. Len(Written) : Written[i].ok

\* Both producers have entries written, one of them two, across a rotation.
C5_Witness ==
    /\ Len(EntriesOf(1, Written)) = 2
    /\ Len(EntriesOf(2, Written)) >= 1
    /\ Written[1].val[1] = 1 /\ Written[2].val[1] = 2
    /\ w_info.number > 1

\* C14: once a close() has returned, a later add(), sync() or close() of any
\* producer queues nothing and changes nothing of the writer or the block
\* files, and a later close() returns Closed; once a close() has returned Ok,
\* no step at all changes the writer or the block files.
C14_ClosedAfterClose ==
    [][
       (\E q \in Producers : p_close[q] \in {"ok", "Closed"}) =>
           /\ (p_calls' # p_calls \/ n_syncs' # n_syncs) =>
                  (queue' = queue /\ p_sent' = p_sent /\ wvars' = wvars)
           /\ \A p \in Producers :
                  (p_close[p] = "no" /\ p_close'[p] # "no") =>
                      (p_close'[p] = "Closed" /\ queue' = queue /\ wvars' = wvars)
           /\ (\E q \in Producers : p_close[q] = "ok") => (wvars' = wvars)
    ]_vars

\* One producer's close() returned Ok, the other's returned Closed, and the
\* add() and sync() calls made were all refused: the actor processed the
\* Close and nothing else.
C14_Witness ==
    /\ l_pc = "done"
    /\ p_close[1] = "ok" /\ p_close[2] = "Closed"
    /\ p_calls[2] >= 1 /\ n_syncs >= 1
    /\ l_done = 1

\* C25: the actor syncs on the timer only in the select!, with the queue
\* empty, and then waits for a command without a timer: between two commands
\* it syncs on the timer at most once.
C25_TimerNotRearmed ==
    /\ [](l_timer <= 1)
    /\ [][(l_timer' > l_timer) =>
              /\ l_pc = "select" /\ queue = <<>>
              /\ l_pc' = "wait"
              /\ l_done' = l_done]_vars
    /\ [][(l_timer = 1 /\ l_done' = l_done) =>
              (l_timer' = 1 /\ w_synced' = w_synced /\ l_pc' \in {"wait", "final"})]_vars

\* The timer has synced an entry, and the actor waits while the next command
\* is in the queue.
C25_Witness ==
    /\ l_timer = 1
    /\ l_pc = "wait"
    /\ w_count >= 1 /\ ~Unsynced
    /\ queue # <<>>

\* --------------------------------------------------------------- Forwarder

\* The configuration of Spec and the length of the entries its writer
\* appends: two frames fill a block and the BufWriter.
FwdConfig == [max_buffer_len |-> 16, max_block_len |-> 24, max_entry_len |-> 2]
FwdLens == {2}

fwdTask == <<f_pc, f_info, f_size, f_errors, f_todo, f_closest, r_info, f_from>>
ackTask == <<a_prev, a_last>>
remote == <<rem_infos, rem_last>>
history == <<delivered, pre, shook, maxStart>>

\* handle_acks: the test that an Ack is honoured.
AckAdvancesByInfo(ack, prev) == InfoLt(prev, ack)
AckAdvances(ack, prev) == ack.number > prev.number

\* forward: info after a Record was written.
InfoKept(rinfo, info) == info
InfoAfterRecord(rinfo, info) == rinfo

\* EntryReader::open(dir, info) succeeds: the file is there and holds a header.
CanOpen(info) == info.number \in dir /\ file[info.number].hdr

\* EntryReader::open: the reader's info.
OpenInfo(info) == IF info.offset = 0 THEN BlockInfo(info.number, HeaderLen) ELSE info

\* EntryReader::next_entry at info in the file f: the possible results. At a
\* frame boundary the frame is read, its length added to info before the CRC
\* is compared. Past the last byte the read of the length hits end of file.
\* Anywhere else the bytes read as a length and a CRC are whatever lies there.
NextEntry(f, info) ==
    LET at == {k \in 1 .. Len(f.frames) : FrameStart(f, k) = info.offset}
    IN  IF info.offset >= FileLen(f)
        THEN {[kind |-> "none", info |-> info]}
        ELSE IF at # {}
        THEN LET k == CHOOSE k \in at : TRUE
                 fr == f.frames[k]
                 next == [info EXCEPT !.offset = @ + FrameLenU16(fr.len)]
             IN  IF fr.ok
                 THEN {[kind |-> "entry", info |-> next, frame |-> fr]}
                 ELSE {[kind |-> "Crc", info |-> next]}
        ELSE {[kind |-> "Crc", info |-> info], [kind |-> "Io", info |-> info]}

\* The top of forward's main loop: updated_block begins to read the directory.
EnterScan(info, size) ==
    /\ f_pc' = "scan"
    /\ f_info' = info
    /\ f_size' = size
    /\ f_errors' = 0
    /\ f_todo' = dir
    /\ f_closest' = NoInfo
    /\ r_info' = Zero

\* go: a task ended, the other is aborted, connect() is next.
EndConnection ==
    /\ f_pc' = "off"
    /\ f_info' = Zero
    /\ f_size' = 0
    /\ f_errors' = 0
    /\ f_todo' = {}
    /\ f_closest' = NoInfo
    /\ r_info' = Zero
    /\ f_from' = "none"
    /\ a_prev' = Zero
    /\ a_last' = NoAck
    /\ sent' = <<>>

\* The entries a sync() had covered.
Synced == 1 .. w_synced

\* connect(): the handshake, answered by Go{start}. The remote resumes from
\* the info of a Record it received, or from zero.
ConnectTo(start) ==
    /\ f_pc = "off"
    /\ EnterScan(start, 0)
    /\ f_from' = "start"
    /\ a_prev' = Zero
    /\ a_last' = NoAck
    /\ sent' = <<>>
    /\ UNCHANGED <<wvars, lvars, xvars, remote, delivered, disc, ncorrupt>>

Connect(start) ==
    /\ ConnectTo(start)
    /\ UNCHANGED <<pre, shook, maxStart>>

\* The connection breaks: a write or a read on the socket fails.
Disconnect ==
    /\ f_pc # "off"
    /\ disc < MaxDisconnects
    /\ disc' = disc + 1
    /\ EndConnection
    /\ UNCHANGED <<wvars, lvars, xvars, remote, history, ncorrupt>>

\* find_updated_block: the test with the larger number preferred.
CloserFarther(n, info, closest) ==
    n > info.number /\ (closest.some => n > closest.number)

\* find_updated_block: entry n lies behind info and before closest.
Closer(n, info, closest) ==
    n > info.number /\ (closest.some => n < closest.number)

\* find_updated_block: one entry n of the directory.
ScanStep(n) ==
    /\ f_pc = "scan"
    /\ n \in f_todo
    /\ IF n \notin dir
       THEN \* the entry is gone: an I/O error, and updated_block starts over
            EnterScan(f_info, f_size) /\ UNCHANGED f_from
       ELSE LET s == FileLen(file[n])
            IN  IF n = f_info.number /\ s > f_size
                THEN /\ f_pc' = "open"
                     /\ f_size' = s
                     /\ f_todo' = {}
                     /\ f_closest' = NoInfo
                     /\ UNCHANGED <<f_info, f_errors, r_info, f_from>>
                ELSE /\ f_todo' = f_todo \ {n}
                     /\ f_closest' =
                            IF Closer(n, f_info, f_closest) /\ s > 0
                            THEN [some |-> TRUE, number |-> n, size |-> s]
                            ELSE f_closest
                     /\ UNCHANGED <<f_pc, f_info, f_size, f_errors, r_info, f_from>>
    /\ UNCHANGED <<wvars, lvars, xvars, ackTask, remote, history, sent, disc, ncorrupt>>

\* find_updated_block: the directory is read through.
ScanEnd ==
    /\ f_pc = "scan"
    /\ f_todo = {}
    /\ IF f_closest.some
       THEN /\ f_pc' = "open"
            /\ f_info' = BlockInfo(f_closest.number, 0)
            /\ f_size' = f_closest.size
            /\ f_closest' = NoInfo
            /\ f_from' = "scan"
            /\ UNCHANGED <<f_errors, f_todo, r_info>>
       ELSE EnterScan(f_info, f_size) /\ UNCHANGED f_from
    /\ UNCHANGED <<wvars, lvars, xvars, ackTask, remote, history, sent, disc, ncorrupt>>

\* forward: one more failed open is retried.
RetriesLeftOneMore(errors) == errors <= OpenRetries

\* forward: a failed open is retried (if errors < 3).
RetriesLeft(errors) == errors < OpenRetries

\* forward: EntryReader::open, which succeeds or not, and the retry count.
OpenBlockWhen(can) ==
    /\ f_pc = "open"
    /\ IF can
       THEN /\ f_pc' = "read"
            /\ r_info' = OpenInfo(f_info)
            /\ f_errors' = 0
            /\ UNCHANGED <<f_info, f_size, f_todo, f_closest, f_from>>
       ELSE IF RetriesLeft(f_errors)
       THEN /\ f_errors' = f_errors + 1
            /\ UNCHANGED <<f_pc, f_info, f_size, f_todo, f_closest, r_info,
                           f_from>>
       ELSE /\ EnterScan([f_info EXCEPT !.number = @ + 1], 0)
            /\ f_from' = "skip"
    /\ UNCHANGED <<wvars, lvars, xvars, ackTask, remote, history, sent, disc, ncorrupt>>

\* forward: the open fails only if the file is gone or holds no header.
OpenBlock == OpenBlockWhen(CanOpen(f_info))

\* forward: next_entry, and the Record written for the entry it returned. The
\* Record carries forward's info; at and len say where the frame lay.
ReadSend ==
    /\ f_pc = "read"
    /\ \E out \in NextEntry(file[r_info.number], r_info) :
           IF out.kind = "entry"
           THEN LET r == [info |-> f_info, val |-> out.frame.val,
                          len |-> out.frame.len, at |-> r_info]
                IN  /\ sent' = Append(sent, r)
                    /\ delivered' = delivered \cup {r.val}
                    /\ rem_infos' = rem_infos \cup {r.info}
                    /\ rem_last' = r.info
                    /\ r_info' = out.info
                    /\ f_info' = InfoAfterRecord(out.info, f_info)
                    /\ f_from' = "read"
                    /\ UNCHANGED <<f_pc, f_size, f_errors, f_todo, f_closest,
                                   ackTask>>
           ELSE IF out.kind = "none"
           THEN /\ EnterScan(f_info, f_size)
                /\ UNCHANGED <<f_from, ackTask, remote, sent, delivered>>
           ELSE /\ EndConnection
                /\ UNCHANGED <<remote, delivered>>
    /\ UNCHANGED <<wvars, lvars, xvars, pre, shook, maxStart, disc, ncorrupt>>

\* handle_acks: one Ack. The remote acks the info of a Record it received.
HandleAck(ack) ==
    /\ f_pc # "off"
    /\ ack \in rem_infos
    /\ IF AckAdvances(ack, a_prev)
       THEN /\ a_prev' = ack
            /\ dir' = DeleteBlocks(dir, ack.number)
            /\ a_last' = [kind |-> "deleted", number |-> ack.number]
       ELSE /\ a_last' = [kind |-> "ignored", number |-> ack.number]
            /\ UNCHANGED <<a_prev, dir>>
    /\ UNCHANGED <<cfg, file, w_info, w_buf, w_count, w_synced, w_last>>
    /\ UNCHANGED <<lvars, xvars, fwdTask, remote, history, sent, disc, ncorrupt>>

\* The Logger's writer appends an entry; a block it creates may or may not
\* show up in a directory listing that is under way.
FAppend(len) ==
    /\ w_count < MaxAppends
    /\ LET w == WriterAppend(ThisWriter, [val |-> w_count + 1, len |-> len, ok |-> TRUE])
       IN  /\ SetWriter(w, "append", len)
           /\ IF f_pc = "scan"
              THEN f_todo' \in {f_todo, f_todo \cup (w.dir \ dir)}
              ELSE UNCHANGED f_todo
    /\ UNCHANGED <<lvars, xvars, f_pc, f_info, f_size, f_errors, f_closest, r_info,
                   f_from, ackTask, remote, history, sent, disc, ncorrupt>>

\* The Logger's writer syncs.
FSync ==
    /\ w_buf # EmptyBuf \/ Unsynced
    /\ SetWriter(WriterSync(ThisWriter), "sync", 0)
    /\ UNCHANGED <<lvars, xvars, fvars>>

\* The stored CRC of frame k of block n is damaged on disk.
Corrupt(n, k) ==
    /\ ncorrupt < MaxCorrupt
    /\ n \in dir
    /\ k \in 1 .. Len(file[n].frames)
    /\ file[n].frames[k].ok
    /\ file' = [file EXCEPT ![n].frames[k].ok = FALSE]
    /\ ncorrupt' = ncorrupt + 1
    /\ UNCHANGED <<cfg, dir, w_info, w_buf, w_count, w_synced, w_last>>
    /\ UNCHANGED <<lvars, xvars, fwdTask, ackTask, remote, history, sent, disc>>

Forward == (\E n \in f_todo : ScanStep(n)) \/ ScanEnd \/ OpenBlock \/ ReadSend

Init ==
    /\ InitWriter(FwdConfig)
    /\ InitLogger
    /\ InitForwarder
    /\ InitAlone

Next ==
    \/ \E len \in FwdLens : FAppend(len)
    \/ FSync
    \/ \E n \in dir : \E k \in 1 .. Len(file[n].frames) : Corrupt(n, k)
    \/ \E start \in {Zero} \cup rem_infos : Connect(start)
    \/ Disconnect
    \/ Forward
    \/ \E ack \in rem_infos : HandleAck(ack)

Spec == Init /\ [][Next]_vars

\* ---------------------------------------------------------------- QuietSpec

\* The Forwarder started on a directory whose writer has stopped: every
\* append, sync and damage precedes the first handshake. The handshakes are
\* recorded: the entries synced before the first, and the largest start.
QuietConfig == [max_buffer_len |-> 16, max_block_len |-> 32, max_entry_len |-> 2]

QAppend(len) ==
    /\ ~shook
    /\ w_count < QuietAppends
    /\ SetWriter(WriterAppend(ThisWriter, [val |-> w_count + 1, len |-> len, ok |-> TRUE]),
                 "append", len)
    /\ UNCHANGED <<lvars, xvars, fvars>>

QSync ==
    /\ ~shook
    /\ FSync

QCorrupt(n, k) ==
    /\ ~shook
    /\ Corrupt(n, k)

QConnect(start) ==
    /\ ConnectTo(start)
    /\ shook' = TRUE
    /\ pre' = IF shook THEN pre ELSE Synced
    /\ maxStart' = IF InfoLt(maxStart, start) THEN start ELSE maxStart

QuietInit ==
    /\ InitWriter(QuietConfig)
    /\ InitLogger
    /\ InitForwarder
    /\ InitAlone

QuietNext ==
    \/ \E len \in FwdLens : QAppend(len)
    \/ QSync
    \/ \E n \in dir : \E k \in 1 .. Len(file[n].frames) : QCorrupt(n, k)
    \/ \E start \in {Zero} \cup rem_infos : QConnect(start)
    \/ Disconnect
    \/ Forward
    \/ \E ack \in rem_infos : HandleAck(ack)

QuietSpec == QuietInit /\ [][QuietNext]_vars

\* go() and the forward task are spawned tasks and connect() retries for
\* ever: each runs whenever it can step.
QuietFairSpec ==
    /\ QuietSpec
    /\ WF_vars(Forward)
    /\ WF_vars(\E start \in {Zero} \cup rem_infos : QConnect(start))

\* ------------------------------------------------------ Forwarder: claims

\* Where the frame that holds entry v lies, once it has reached a file.
HasVal(n, v) == \E k \in 1 .. Len(file[n].frames) : file[n].frames[k].val = v
OnDisk(v) == \E n \in DOMAIN file : HasVal(n, v)
PosOf(v) ==
    LET n == CHOOSE m \in DOMAIN file : HasVal(m, v)
        k == CHOOSE j \in 1 .. Len(file[n].frames) : file[n].frames[j].val = v
    IN  BlockInfo(n, FrameStart(file[n], k))

\* A handshake response carried a start past entry v.
StartPast(v) == OnDisk(v) /\ InfoLt(PosOf(v), maxStart)

\* C1: an entry synced before the first handshake is eventually sent in a
\* Record, whatever the disconnects, unless a start lay past it (no frame
\* being damaged).
C1_AtLeastOnce ==
    \A v \in 1 .. QuietAppends :
        (v \in pre /\ ncorrupt = 0) ~> (v \in delivered \/ StartPast(v))

\* C2: the ack task never deletes the block the writer appends to; every
\* deleted block has a number below the writer's.
C2_LiveBlockKept ==
    /\ w_info.number \in dir
    /\ \A n \in DOMAIN file \ dir : n < w_info.number

\* An Ack carrying the number of the writer's block was honoured, and the
\* blocks below it are gone.
C2_Witness ==
    /\ a_prev.number = w_info.number
    /\ DOMAIN file \ dir # {}

\* C6 (as claimed): the info of a Record is the position right after its
\* frame.
C6_PostFrameInfo ==
    \A i \in 1 .. Len(sent) :
        sent[i].info = BlockInfo(sent[i].at.number, sent[i].at.offset + 2 + sent[i].len + 4)

\* C7: on one connection the info of successive Records strictly increases,
\* and so does the place of their frames: ascending offsets in a block,
\* ascending block numbers, no frame twice.
C7_StrictOrder ==
    \A i \in 1 .. Len(sent) - 1 :
        /\ InfoLt(sent[i].info, sent[i + 1].info)
        /\ InfoLt(sent[i].at, sent[i + 1].at)

\* Records of two frames of a block and of a frame of the next block.
C7_Witness ==
    /\ Len(sent) >= 3
    /\ sent[1].at.number = sent[2].at.number
    /\ sent[2].at.number < sent[3].at.number

\* C8: an Ack makes the ack task call delete_blocks exactly when its block
\* number is greater than that of prev; the blocks below that number are
\* then removed and prev takes the number. Any other Ack leaves prev and the
\* directory as they are.
C8_AckAdvancement ==
    [][(f_pc # "off" /\ f_pc' # "off" /\ (a_last' # a_last \/ a_prev' # a_prev)) =>
          LET n == a_last'.number
          IN  IF n > a_prev.number
              THEN /\ a_last'.kind = "deleted"
                   /\ a_prev'.number = n
                   /\ dir' = {m \in dir : m >= n}
              ELSE /\ a_last'.kind = "ignored"
                   /\ a_prev' = a_prev
                   /\ dir' = dir]_vars

\* An Ack was honoured and removed a block, and a later Ack with the same
\* block number and a larger offset was ignored.
C8_Witness ==
    /\ a_last.kind = "ignored"
    /\ a_last.number = a_prev.number
    /\ DOMAIN file \ dir # {}
    /\ \E a \in rem_infos : a.number = a_prev.number /\ a.offset > a_prev.offset

\* Block n holds a frame whose stored CRC does not match.
Damaged(n) ==
    n \in DOMAIN file /\ \E k \in 1 .. Len(file[n].frames) : ~file[n].frames[k].ok

\* C9 (as claimed): when block n holds a damaged frame and block n+1 holds
\* frames, the forwarder eventually sends a Record of block n+1, and never
\* one of the damaged frame.
C9_DamagedBlockSkipped ==
    /\ \A n \in 1 .. QuietAppends :
           (shook /\ Damaged(n) /\ n + 1 \in DOMAIN file /\ file[n + 1].frames # <<>>)
               ~> (\E v \in delivered : n + 1 \in DOMAIN file /\ HasVal(n + 1, v))
    /\ [](\A i \in 1 .. Len(sent) :
              \A n \in DOMAIN file : \A k \in 1 .. Len(file[n].frames) :
                  file[n].frames[k].val = sent[i].val => file[n].frames[k].ok)

\* C19 (as claimed): when the directory scan makes the forward task leave
\* a block it has been reading for a block with a higher number, no frame of
\* the block it leaves lies at or behind the position it had reached.
C19_NoSkipAtRotation ==
    [][(/\ f_pc = "scan" /\ f_pc' = "open"
        /\ f_size > 0
        /\ f_info.number \in dir
        /\ f_info'.number > f_info.number) =>
           \A k \in 1 .. Len(file[f_info.number].frames) :
               FrameEnd(file[f_info.number], k) <= f_info.offset]_vars

\* C21 (as claimed): the first reader forward opens after it abandoned a
\* block stands at the first frame of its block, directly after the header.
C21_SkipResumesAtFirstFrame ==
    [][(f_pc = "open" /\ f_pc' = "read" /\ f_from = "skip") =>
           r_info' = BlockInfo(f_info.number, HeaderLen)]_vars

\* -------------------------------------------------------------- HonestSpec

\* The Forwarder against a remote that answers the handshake with the info of
\* the last Record it received (zero before the first) and acks only infos
\* of Records it received.
HonestNext ==
    \/ \E len \in FwdLens : FAppend(len)
    \/ FSync
    \/ \E n \in dir : \E k \in 1 .. Len(file[n].frames) : Corrupt(n, k)
    \/ Connect(rem_last)
    \/ Disconnect
    \/ Forward
    \/ \E ack \in rem_infos : HandleAck(ack)

HonestSpec == Init /\ [][HonestNext]_vars

\* The blocks that were deleted.
Deleted == DOMAIN file \ dir

\* C20 (as claimed): with such a remote, every frame of a deleted block has
\* been sent in a Record on some connection.
C20_NoDeletionBeforeForwarding ==
    \A n \in Deleted : \A k \in 1 .. Len(file[n].frames) :
        file[n].frames[k].val \in delivered

\* --------------------------------------------------------------- RetrySpec

\* The Forwarder of HonestSpec on a file system where opening a file that is
\* there may fail as well (an I/O error), now and not the next time.
OpenBlockIo == \E io \in BOOLEAN : OpenBlockWhen(io /\ CanOpen(f_info))

RetryNext ==
    \/ \E len \in FwdLens : FAppend(len)
    \/ FSync
    \/ Connect(rem_last)
    \/ \E n \in f_todo : ScanStep(n)
    \/ ScanEnd
    \/ OpenBlockIo
    \/ ReadSend
    \/ \E ack \in rem_infos : HandleAck(ack)

RetrySpec == Init /\ [][RetryNext]_vars

\* C24: forward gives up a block exactly at the fourth failed open in a row:
\* the count of failed opens never passes 3, a step that abandons the block
\* is taken at count 3 and leaves number + 1 and size 0, and an open that
\* succeeds reads the block forward had chosen.
C24_OpenRetryBudget ==
    /\ [](f_errors <= OpenRetries)
    /\ [][(f_pc = "open") =>
              /\ (f_pc' = "scan") =>
                     /\ f_errors = OpenRetries
                     /\ f_info'.number = f_info.number + 1
                     /\ f_size' = 0
              /\ (f_pc' = "read") =>
                     /\ f_info' = f_info
                     /\ r_info'.number = f_info.number
              /\ (f_pc' = "open") =>
                     /\ f_info' = f_info
                     /\ f_errors' \in {f_errors, f_errors + 1}]_vars

\* A block whose file is there was abandoned, after frames had been sent.
C24_Witness ==
    /\ f_pc = "scan"
    /\ f_from = "skip"
    /\ f_size = 0
    /\ f_info.number - 1 \in dir
    /\ delivered # {}

\* ---------------------------------------------------------------- ScanSpec

\* updated_block on a directory that does not change while it is read: the
\* blocks, their lengths, info and size are arbitrary, and the entries are
\* returned in any order.
MaxScanBlock == 3

\* Block files of 0, 8, 16 and 24 bytes.
ScanFiles ==
    { [hdr |-> FALSE, frames |-> <<>>],
      [hdr |-> TRUE, frames |-> <<>>],
      [hdr |-> TRUE, frames |-> <<[len |-> 2, val |-> 1, ok |-> TRUE]>>],
      [hdr |-> TRUE, frames |-> <<[len |-> 2, val |-> 1, ok |-> TRUE],
                                  [len |-> 2, val |-> 2, ok |-> TRUE]>>] }

ScanSizes == {0, 8, 16}

ScanInit ==
    /\ cfg = FwdConfig
    /\ dir \in SUBSET (1 .. MaxScanBlock)
    /\ file \in [1 .. MaxScanBlock -> ScanFiles]
    /\ \A n \in (1 .. MaxScanBlock) \ dir : file[n] = [hdr |-> FALSE, frames |-> <<>>]
    /\ w_info = Zero
    /\ w_buf = EmptyBuf
    /\ w_count = 0
    /\ w_synced = 0
    /\ w_last = [op |-> "open", len |-> 0, res |-> "ok"]
    /\ InitLogger
    /\ InitAlone
    /\ f_pc = "scan"
    /\ f_info \in [number : 0 .. MaxScanBlock, offset : {0, 16}]
    /\ f_size \in ScanSizes
    /\ f_errors = 0
    /\ f_todo = dir
    /\ f_closest = NoInfo
    /\ r_info = Zero
    /\ f_from = "start"
    /\ a_prev = Zero
    /\ a_last = NoAck
    /\ sent = <<>>
    /\ delivered = {}
    /\ rem_infos = {}
    /\ rem_last = Zero
    /\ disc = 0
    /\ ncorrupt = 0
    /\ pre = {}
    /\ shook = FALSE
    /\ maxStart = Zero

ScanNext == (\E n \in f_todo : ScanStep(n)) \/ ScanEnd

ScanSpec == ScanInit /\ [][ScanNext]_vars

\* The block of info has grown beyond size; the non-empty blocks behind it.
Grown == f_info.number \in dir /\ FileLen(file[f_info.number]) > f_size
Higher == {m \in dir : m > f_info.number /\ FileLen(file[m]) > 0}

\* C23: updated_block returns info unchanged with the length of its block
\* when that block is longer than size, whatever the order of the entries and
\* whatever blocks lie behind it; otherwise it returns the smallest non-empty
\* block behind info, at offset 0, with its length; and it goes on polling,
\* without returning, while there is neither.
C23_UpdatedBlock ==
    [][(f_pc = "scan") =>
           /\ (f_pc' = "open" /\ Grown) =>
                  /\ f_info' = f_info
                  /\ f_size' = FileLen(file[f_info.number])
           /\ (f_pc' = "open" /\ ~Grown) =>
                  /\ Higher # {}
                  /\ f_info' = BlockInfo(SetMin(Higher), 0)
                  /\ f_size' = FileLen(file[SetMin(Higher)])
           /\ (f_todo = {} /\ (Grown \/ Higher # {})) => f_pc' = "open"
           /\ (~Grown /\ Higher = {}) => f_pc' = "scan"]_vars

\* The scan has passed an empty block and a non-empty one behind info and
\* returned the nearer of two non-empty blocks.
C23_Witness ==
    /\ f_pc = "open"
    /\ f_from = "scan"
    /\ f_info = BlockInfo(2, 0)
    /\ f_size = 16
    /\ 1 \in dir /\ FileLen(file[1]) = 0
    /\ 3 \in dir /\ FileLen(file[3]) > 0

\* -------------------------------------------------------------- DeleteSpec

\* delete_blocks on a directory of named entries. A name is a sequence of
\* characters; an entry is a name and whether it is a regular file.

BLOCK_FILENAME_PREFIX == <<"b", "l", "o", "c", "k", ".">>

StartsWith(name, prefix) ==
    Len(name) >= Len(prefix) /\ SubSeq(name, 1, Len(prefix)) = prefix

DigitValue ==
    ("0" :> 0) @@ ("1" :> 1) @@ ("2" :> 2) @@ ("3" :> 3) @@ ("4" :> 4) @@
    ("5" :> 5) @@ ("6" :> 6) @@ ("7" :> 7) @@ ("8" :> 8) @@ ("9" :> 9)

RECURSIVE ParseDigits(_, _)

\* str::parse::<u64>: an optional "+", then one decimal digit or more.
ParseDigits(str, acc) ==
    IF str = <<>> THEN acc
    ELSE ParseDigits(Tail(str), 10 * acc + DigitValue[Head(str)])

Parse(str) ==
    LET digits == IF str # <<>> /\ Head(str) = "+" THEN Tail(str) ELSE str
    IN  IF digits # <<>> /\ \A i \in 1 .. Len(digits) : digits[i] \in DOMAIN DigitValue
        THEN [ok |-> TRUE, val |-> ParseDigits(digits, 0)]
        ELSE [ok |-> FALSE, val |-> 0]

\* Path::extension: what follows the last "." of the file name, unless the
\* only "." is the first character.
Extension(name) ==
    LET dots == {i \in 1 .. Len(name) : name[i] = "."}
    IN  IF dots = {} \/ dots = {1}
        THEN [some |-> FALSE, val |-> <<>>]
        ELSE [some |-> TRUE, val |-> SubSeq(name, SetMax(dots) + 1, Len(name))]

\* read_block_num: the extension parsed as a number, 0 when there is none
\* or when it does not parse.
ReadBlockNum(name) ==
    LET e == Extension(name)
    IN  IF e.some /\ Parse(e.val).ok THEN Parse(e.val).val ELSE 0

\* delete_blocks(dir, to): the entries left in directory d.
DeleteNamed(d, to) ==
    {e \in d : ~(/\ StartsWith(e.name, BLOCK_FILENAME_PREFIX)
                 /\ e.is_file
                 /\ ReadBlockNum(e.name) < to)}

\* The largest bound passed to delete_blocks in DeleteSpec.
MaxDeleteTo == 3

\* Names of DeleteSpec: blocks, block-prefixed names without a number, and
\* names without the prefix.
FileNames ==
    { <<"b", "l", "o", "c", "k", ".", "1">>,
      <<"b", "l", "o", "c", "k", ".", "2">>,
      <<"b", "l", "o", "c", "k", ".", "3">>,
      <<"b", "l", "o", "c", "k", ".", "1", "0">>,
      <<"b", "l", "o", "c", "k", ".", "t", "m", "p">>,
      <<"b", "l", "o", "c", "k", ".", "2", ".", "b", "a", "k">>,
      <<"b", "l", "o", "c", "k", ".">>,
      <<"n", "o", "t", "e", "s", ".", "1">> }

DirEntries ==
    [name : FileNames, is_file : {TRUE}]
        \cup {[name |-> <<"b", "l", "o", "c", "k", ".", "1">>, is_file |-> FALSE]}

\* A directory holds one entry of a name.
Directories ==
    {d \in SUBSET DirEntries : \A e1, e2 \in d : e1.name = e2.name => e1 = e2}

XDelete(to) ==
    /\ x_dir' = DeleteNamed(x_dir, to)
    /\ x_del' = [called |-> TRUE, to |-> to, before |-> x_dir]
    /\ UNCHANGED <<wvars, lvars, fvars, x_file, x_rd, gvars>>

DeleteInit ==
    /\ InitWriter(FwdConfig)
    /\ InitLogger
    /\ InitForwarder
    /\ x_dir \in Directories
    /\ x_del = NoDelete
    /\ x_file = <<>>
    /\ x_rd = NoReader
    /\ InitGo

DeleteNext == \E to \in 0 .. MaxDeleteTo : XDelete(to)

DeleteSpec == DeleteInit /\ [][DeleteNext]_vars

\* The name of a block file: the prefix, then decimal digits.
IsBlockName(name) ==
    /\ StartsWith(name, BLOCK_FILENAME_PREFIX)
    /\ Len(name) > Len(BLOCK_FILENAME_PREFIX)
    /\ \A i \in Len(BLOCK_FILENAME_PREFIX) + 1 .. Len(name) : name[i] \in DOMAIN DigitValue

BlockNumberOf(name) ==
    ParseDigits(SubSeq(name, Len(BLOCK_FILENAME_PREFIX) + 1, Len(name)), 0)

\* C13 (as claimed): delete_blocks(dir, T) removes the block files whose
\* number is below T and leaves every other entry in place, also a name with
\* the prefix and no decimal number; a second call with T changes nothing.
C13_DeletesExactlyLowerBlocks ==
    x_del.called =>
        /\ x_dir = {e \in x_del.before :
                       ~(e.is_file /\ IsBlockName(e.name)
                                   /\ BlockNumberOf(e.name) < x_del.to)}
        /\ DeleteNamed(x_dir, x_del.to) = x_dir

\* -------------------------------------------------------------- ReaderSpec

\* EntryReader on a block file given byte by byte. The reader is
\* [state, pos, info, res, val, open, crc_seen]: pos is the number of bytes
\* consumed from the file, res and val the result of the last next_entry,
\* open the result of EntryReader::open, crc_seen whether a next_entry of
\* this reader has returned Crc.

\* HEADER_V1 as the eight bytes of the u64, most significant first.
HEADER_V1 == <<98, 108, 111, 99, 107, 1, 0, 0>>

\* BlockHeader::from_u64, version and with_version on the eight bytes:
\* bits 16 to 23 of the u64 are the sixth byte.
FromU64(h) == IF h = HEADER_V1 THEN [some |-> TRUE, val |-> h] ELSE [some |-> FALSE, val |-> h]
Version(h) == h[6]
WithVersion(h, v) == [h EXCEPT ![6] = v]

\* Stand-in for CRC32C.checksum: four bytes that depend on every byte of the
\* payload and on its length.
OddBytes(bytes) == LET Odd(b) == b % 2 = 1 IN Len(SelectSeq(bytes, Odd))
Checksum(payload) == <<0, 0, 0, (OddBytes(payload) + Len(payload)) % 2>>

\* Bytes of the file that a reader at position pos has not consumed.
Available(bytes, pos) == IF Len(bytes) > pos THEN Len(bytes) - pos ELSE 0

\* read_header: read_u64, from_u64, the version test.
ReadHeader(bytes) ==
    IF Len(bytes) < HeaderLen
    THEN [res |-> "Io", version |-> 0]
    ELSE LET h == FromU64(SubSeq(bytes, 1, HeaderLen))
         IN  IF ~h.some THEN [res |-> "HeaderNone", version |-> 0]
             ELSE IF Version(h.val) # 1
             THEN [res |-> "HeaderSome", version |-> Version(h.val)]
             ELSE [res |-> "ok", version |-> 1]

\* EntryReader::open(dir, info) on the file.
ReaderOpen(bytes, info) ==
    LET h == ReadHeader(bytes)
    IN  IF h.res # "ok"
        THEN [NoReader EXCEPT !.state = "failed", !.open = h]
        ELSE [NoReader EXCEPT !.state = "open", !.open = h,
                  !.pos = IF info.offset = 0 THEN HeaderLen ELSE info.offset,
                  !.info = IF info.offset = 0
                           THEN [info EXCEPT !.offset = HeaderLen] ELSE info]

\* EntryReader::next_entry. read_u16 consumes what is left of the file before
\* it reports the end of file, and so do read_exact and read_u32.
ReaderNextEntry(bytes, rd) ==
    LET avail == Available(bytes, rd.pos)
    IN  IF avail < 2
        THEN [rd EXCEPT !.res = "None", !.val = <<>>, !.pos = @ + avail]
        ELSE LET len == 256 * bytes[rd.pos + 1] + bytes[rd.pos + 2]
             IN  IF avail < 2 + len + 4
                 THEN [rd EXCEPT !.res = "Io", !.val = <<>>, !.pos = @ + avail]
                 ELSE LET payload == SubSeq(bytes, rd.pos + 3, rd.pos + 2 + len)
                          crc == SubSeq(bytes, rd.pos + 2 + len + 1, rd.pos + 2 + len + 4)
                          rd1 == [rd EXCEPT !.pos = @ + 2 + len + 4,
                                            !.info.offset = @ + FrameLenU16(len)]
                      IN  IF crc # Checksum(payload)
                          THEN [rd1 EXCEPT !.res = "Crc", !.val = <<>>, !.crc_seen = TRUE]
                          ELSE [rd1 EXCEPT !.res = "Some", !.val = payload]

\* Bytes of a block file of ReaderSpec after its header, and the length of
\* what follows the header.
MaxBody == 12
BodyBytes == {0, 1}
Bodies == UNION {[1 .. n -> BodyBytes] : n \in 0 .. MaxBody}

\* Version bytes of the headers of ReaderSpec.
MaxVersion == 3

\* Headers: the magic with each version, a magic that does not match, and a
\* header cut short.
Headers ==
    {WithVersion(HEADER_V1, v) : v \in 0 .. MaxVersion}
        \cup {[WithVersion(HEADER_V1, v) EXCEPT ![1] = 66] : v \in 1 .. 2}
        \cup {SubSeq(HEADER_V1, 1, 5)}

\* Offsets of the info given to EntryReader::open.
OpenOffsets == {0, 8, 14}

ROpen(offset) ==
    /\ x_rd.state = "closed"
    /\ x_rd' = ReaderOpen(x_file, BlockInfo(1, offset))
    /\ UNCHANGED <<wvars, lvars, fvars, x_dir, x_del, x_file, gvars>>

RNext ==
    /\ x_rd.state = "open"
    /\ x_rd' = ReaderNextEntry(x_file, x_rd)
    /\ UNCHANGED <<wvars, lvars, fvars, x_dir, x_del, x_file, gvars>>

ReaderInit ==
    /\ InitWriter(FwdConfig)
    /\ InitLogger
    /\ InitForwarder
    /\ x_dir = {}
    /\ x_del = NoDelete
    /\ \E h \in Headers : \E b \in Bodies : x_file = h \o b
    /\ x_rd = NoReader
    /\ InitGo

ReaderNext ==
    \/ \E offset \in OpenOffsets : ROpen(offset)
    \/ RNext

ReaderSpec == ReaderInit /\ [][ReaderNext]_vars

\* The frame at the reader's position is whole: its length prefix, payload
\* and CRC are all in the file.
WholeFrameAt(bytes, pos) ==
    /\ Available(bytes, pos) >= 2
    /\ Available(bytes, pos) >= 2 + (256 * bytes[pos + 1] + bytes[pos + 2]) + 4

\* C16 (as claimed): next_entry returns the end-of-block sentinel only when
\* no byte is left at its position; when the file ends inside the length
\* prefix, the payload or the CRC, it returns an I/O error.
C16_PartialFrameIsError ==
    [][(x_rd.state = "open") =>
           /\ (x_rd'.res = "None") => (Available(x_file, x_rd.pos) = 0)
           /\ (Available(x_file, x_rd.pos) > 0 /\ ~WholeFrameAt(x_file, x_rd.pos)) =>
                  (x_rd'.res = "Io")
    ]_vars

\* C17 (as claimed): a next_entry that returns Crc yields no payload and
\* leaves block_info() where it was, and no later next_entry of that reader
\* yields an entry.
C17_CrcHaltsReader ==
    /\ [](x_rd.crc_seen => x_rd.res # "Some")
    /\ [][(x_rd.state = "open" /\ x_rd'.res = "Crc") =>
              (x_rd'.val = <<>> /\ x_rd'.info = x_rd.info)]_vars

\* The eight bytes carry the magic.
MagicOk(h) == SubSeq(h, 1, 5) = SubSeq(HEADER_V1, 1, 5)

\* C18 (as claimed): setting a version in the header and reading it back is
\* the identity and leaves the other bytes alone; opening a block whose
\* header carries the magic and version v fails with Header(Some(v)) exactly
\* when v is not 1, and Header(None) is returned only for a wrong magic.
C18_HeaderVersionReported ==
    /\ \A v \in 0 .. MaxVersion :
           /\ Version(WithVersion(HEADER_V1, v)) = v
           /\ \A i \in (1 .. HeaderLen) \ {6} : WithVersion(HEADER_V1, v)[i] = HEADER_V1[i]
    /\ (x_rd.state # "closed" /\ Len(x_file) >= HeaderLen) =>
           LET h == SubSeq(x_file, 1, HeaderLen)
           IN  /\ (MagicOk(h) /\ h[7] = 0 /\ h[8] = 0) =>
                      IF h[6] # 1
                      THEN x_rd.open = [res |-> "HeaderSome", version |-> h[6]]
                      ELSE x_rd.open.res = "ok"
               /\ (x_rd.open.res = "HeaderNone") => ~MagicOk(h)

\* ---------------------------------------------------------------- LongSpec

\* An EntryReader on block files whose first frame is among the longest a
\* writer with max_entry_len 65535 writes, in a build with overflow checks
\* and in one without.
LongLens == {65529, 65530, 65533, 65534, 65535}
ShortLens == {0, 1, 2}

\* A frame of len zero bytes with its length prefix and checksum.
ZeroFrame(len) ==
    LET payload == [i \in 1 .. len |-> 0]
    IN  <<len \div 256, len % 256>> \o payload \o Checksum(payload)

LongFiles ==
    {HEADER_V1 \o ZeroFrame(a) \o ZeroFrame(b) : a \in LongLens \cup ShortLens, b \in ShortLens}

\* next_entry with overflow checks: the sum panics after the frame was read.
ReaderNextEntryChecked(bytes, rd) ==
    LET rd1 == ReaderNextEntry(bytes, rd)
    IN  IF rd1.res \in {"Some", "Crc"} /\ Overflows(rd1.pos - rd.pos - 6)
        THEN [rd EXCEPT !.state = "panicked", !.res = "Panic", !.val = <<>>,
                        !.pos = rd1.pos]
        ELSE rd1

LOpen(offset) ==
    /\ x_rd.state = "closed"
    /\ x_rd' = ReaderOpen(x_file, BlockInfo(1, offset))
    /\ UNCHANGED <<wvars, lvars, fvars, x_dir, x_del, x_file, gvars>>

LNext(checked) ==
    /\ x_rd.state = "open"
    /\ x_rd' = IF checked THEN ReaderNextEntryChecked(x_file, x_rd)
                          ELSE ReaderNextEntry(x_file, x_rd)
    /\ UNCHANGED <<wvars, lvars, fvars, x_dir, x_del, x_file, gvars>>

LongInit ==
    /\ InitWriter(FwdConfig)
    /\ InitLogger
    /\ InitForwarder
    /\ x_dir = {}
    /\ x_del = NoDelete
    /\ x_file \in LongFiles
    /\ x_rd = NoReader
    /\ InitGo

LongNext ==
    \/ \E offset \in {0, HeaderLen} : LOpen(offset)
    \/ \E checked \in BOOLEAN : LNext(checked)

LongSpec == LongInit /\ [][LongNext]_vars

\* C27 (as claimed): for a frame of any length up to 65535 a next_entry that
\* returns the entry has moved the reader's offset by the length plus 6, no
\* sum overflows, and the offset is the position of the next frame.
C27_OffsetExact ==
    /\ [](x_rd.res # "Panic")
    /\ [](x_rd.state = "open" => x_rd.info.offset = x_rd.pos)
    /\ [][(x_rd.state = "open" /\ x_rd'.res = "Some") =>
              x_rd'.info.offset = x_rd.info.offset + Len(x_rd'.val) + 6]_vars

\* ------------------------------------------------------------------ GoSpec

\* The loop of Forwarder::go with the two tasks of each connection. A task
\* ends with a result; JoinHandle::abort asks the runtime to cancel a task and
\* returns, and the runtime drops the task later.
Results(role) ==
    IF role = "forwarder" THEN {"Err", "Panic"} ELSE {"Ok", "Err", "Panic"}

Ended(st) == st \in {"Ok", "Err", "Panic"}

\* The handle select did not return: the other task.
Other(role) == IF role = "forwarder" THEN "receiver" ELSE "forwarder"

\* No arm of the match calls abort.
AbortNot(st) == st

\* f.abort(), r.abort(): nothing happens to a task that has ended.
Abort(st) == IF st = "running" THEN "aborted" ELSE st

\* connect() returned: both tasks are spawned and go waits in select.
GoConnect ==
    /\ g_pc = "connect"
    /\ g_conn < MaxConnections
    /\ g_conn' = g_conn + 1
    /\ g_task' = [g_task EXCEPT ![<<g_conn + 1, "forwarder">>] = "running",
                                ![<<g_conn + 1, "receiver">>] = "running"]
    /\ g_pc' = "select"
    /\ UNCHANGED <<wvars, lvars, fvars, x_dir, x_del, x_file, x_rd>>

\* connect(): the remote answers the handshake with Abort.
GoAbortResponse ==
    /\ g_pc = "connect"
    /\ g_pc' = "panicked"
    /\ UNCHANGED <<wvars, lvars, fvars, x_dir, x_del, x_file, x_rd, g_conn, g_task>>

\* A task returns or panics.
TaskEnds(t, how) ==
    /\ g_task[t] = "running"
    /\ how \in Results(t[2])
    /\ g_task' = [g_task EXCEPT ![t] = how]
    /\ UNCHANGED <<wvars, lvars, fvars, x_dir, x_del, x_file, x_rd, g_pc, g_conn>>

\* select returns the handle of a task that has ended, the forwarder's first,
\* and the arm that matches aborts the other.
GoSelect ==
    /\ g_pc = "select"
    /\ \E role \in Roles :
           /\ Ended(g_task[<<g_conn, role>>])
           /\ role = "receiver" => ~Ended(g_task[<<g_conn, "forwarder">>])
           /\ g_task' = [g_task EXCEPT ![<<g_conn, Other(role)>>] = Abort(@)]
    /\ g_pc' = "connect"
    /\ UNCHANGED <<wvars, lvars, fvars, x_dir, x_del, x_file, x_rd, g_conn>>

\* The runtime drops a task whose cancellation was asked for.
Reap(t) ==
    /\ g_task[t] = "aborted"
    /\ g_task' = [g_task EXCEPT ![t] = "gone"]
    /\ UNCHANGED <<wvars, lvars, fvars, x_dir, x_del, x_file, x_rd, g_pc, g_conn>>

GoNext ==
    \/ GoConnect
    \/ GoAbortResponse
    \/ \E t \in Tasks : \E how \in {"Ok", "Err", "Panic"} : TaskEnds(t, how)
    \/ GoSelect
    \/ \E t \in Tasks : Reap(t)

GoSpec == Init /\ [][GoNext]_vars

\* The tasks of a role that exist, and those no abort was called on.
Live(role) == {c \in 1 .. MaxConnections : g_task[<<c, role>>] \in {"running", "aborted"}}
Running(role) == {c \in 1 .. MaxConnections : g_task[<<c, role>>] = "running"}

\* When a task of the connection has ended, go leaves select for connect,
\* and when it spawns tasks, abort was called on every earlier task that had
\* not ended.
AbortThenReconnect ==
    /\ [][(g_pc = "select" /\ g_pc' # "select") =>
              /\ \E role \in Roles : Ended(g_task[<<g_conn, role>>])
              /\ g_pc' = "connect"]_vars
    /\ [][(g_conn' # g_conn) => \A role \in Roles : Running(role) = {}]_vars

\* C22 (as claimed): a task that ends has the other aborted before go
\* reconnects and spawns again, and at most one forward task and one ack
\* task exist at any time.
C22_OneConnectionLive ==
    /\ AbortThenReconnect
    /\ [](\A role \in Roles : Cardinality(Live(role)) <= 1)

\* C22 (amended): a task that ends has the other aborted before go reconnects
\* and spawns again, and at most one forward task and one ack task exist on
\* which abort was not called; a task that was aborted may still exist when
\* the tasks of the next connection are spawned.
C22_OneConnectionRunning ==
    /\ AbortThenReconnect
    /\ [](\A role \in Roles : Cardinality(Running(role)) <= 1)

C22_Witness ==
    /\ g_conn = 2
    /\ g_pc = "select"
    /\ g_task[<<1, "forwarder">>] = "Err"
    /\ g_task[<<1, "receiver">>] = "aborted"
    /\ g_task[<<2, "receiver">>] = "running"

====
